---- MODULE Spec2Model ----
(***************************************************************************)
(* Model of the crypto news scraper: the four source adapters              *)
(* (fetch_twitter_posts, fetch_reddit_posts, fetch_rss_feeds,              *)
(* fetch_github_updates), filter_today, the sort step of main(), and       *)
(* save_results.                                                           *)
(*                                                                         *)
(* Abstractions.  A text (tweet text, selftext, commit message, body) is   *)
(* its length.  An identifier is the sequence of its "/"-separated         *)
(* segments.  An instant is a number of hours; a `published` string is a   *)
(* record [form, t]: form "offset" is an ISO string with an explicit UTC   *)
(* offset denoting the instant t, "Z" the same with a trailing Z, "naive"  *)
(* an ISO string without offset whose wall clock reads t, "garbage" a      *)
(* string that is no ISO timestamp, "empty" the empty string (also what    *)
(* item.get("published") or "" yields for a missing key).                  *)
(***************************************************************************)
EXTENDS Integers, Sequences, FiniteSets, TLC

VARIABLES
    entry,      \* the function that was called: "main", an adapter, "filter_today", "save_results"
    pc,         \* where the run is: an adapter's name, "filter", "sort", "save", ...
    idents,     \* the identifier list the running adapter was called with
    max_items,  \* the max_items argument of the running adapter
    cred,       \* the running adapter's credentials: "present", "absent", "rejected"
    wire,       \* the shape of the raw records the upstream serves to this call
    idx,        \* index in idents of the next identifier of the for loop
    acc,        \* the adapter's local `results` list
    served,     \* log: per identifier processed, what the upstream did (ghost)
    results,    \* main's `results` list / the collection handed to a direct call
    now,        \* the clock, UTC hours
    sysOff,     \* UTC offset of the machine's local zone (used for naive datetimes)
    exc,        \* the exception that propagated out of the entry point, or "none"
    hist,       \* log of the filter_today calls made (ghost)
    call,       \* the arguments of the save_results call
    files       \* the files written so far

vars == <<entry, pc, idents, max_items, cred, wire, idx, acc, served, results, now,
          sysOff, exc, hist, call, files>>

----------------------------------------------------------------------------
(* Bounds of the model *)

\* raw records one upstream response holds at most
MaxRaw == 2
\* the largest max_items a direct adapter call is given
MaxCap == 1
\* the longest collection handed to a direct filter_today call
MaxList == 2
\* hours the clock may advance during one filter_today call
MaxAdvance == 1

(* Program constants *)

TitleMax == 100
SummaryMax == 200
MAX_ITEMS_PER_SOURCE == 5

\* hours in a calendar day (datetime.date())
DayLen == 24
\* UTC offset of tz_name = "Asia/Jerusalem" (standard time)
TzOffset == 2

\* config.py's lists, shortened to their first identifier
TWITTER_USERNAMES == << <<"APompliano">> >>
SUBREDDITS == << <<"CryptoCurrency">> >>
RSS_FEEDS == << <<"CoinDesk">> >>
GITHUB_REPOS == << <<"0xjeffro", "CryptoHub">> >>

\* identifier lists of the direct adapter calls; "norepo" has no "/"
CallIdents(a) ==
    IF a = "github"
    THEN << <<"0xjeffro", "CryptoHub">>, <<"norepo">>, <<"kukapay", "crypto-rss-mcp">> >>
    ELSE << <<"first">>, <<"second">> >>

Adapters == {"twitter", "reddit", "rss", "github"}

----------------------------------------------------------------------------
(* Time *)

\* the UTC hour at which the first local midnight of the window falls
Midnight == DayLen - TzOffset

StartTimes == {Midnight - 1, Midnight}
Instants == {Midnight - 1, Midnight, Midnight + DayLen}
SysOffsets == {0, TzOffset}

\* datetime.now(ZoneInfo(tz_name)).date() at clock reading t
Today(t) == (t + TzOffset) \div DayLen

\* datetime.utcnow().replace(tzinfo=timezone.utc)
UtcNow(t) == [aware |-> TRUE, t |-> t]

\* datetime.isoformat() of an aware datetime: a string with explicit offset
IsoFormat(dt) == [form |-> "offset", t |-> dt.t]

\* date_str.replace("Z", "+00:00")
ReplaceZ(s) == IF s.form = "Z" THEN [form |-> "offset", t |-> s.t] ELSE s

\* datetime.fromisoformat(s); ok = FALSE when it raises ValueError.  A
\* literal Z is not accepted by fromisoformat before Python 3.11; the code
\* never passes one.
FromIsoFormat(s) ==
    CASE s.form = "offset" -> [ok |-> TRUE, aware |-> TRUE, t |-> s.t]
      [] s.form = "naive" -> [ok |-> TRUE, aware |-> FALSE, t |-> s.t]
      [] OTHER -> [ok |-> FALSE, aware |-> FALSE, t |-> 0]

\* a faulty ParseOrNow: the fallback is the epoch instead of the clock
ParseOrEpoch(s, t) ==
    LET p == FromIsoFormat(ReplaceZ(s))
    IN  IF p.ok THEN [aware |-> p.aware, t |-> p.t] ELSE [aware |-> TRUE, t |-> 0]

\* try: fromisoformat(date_str.replace(...)) except: utcnow() at clock reading t
ParseOrNow(s, t) ==
    LET p == FromIsoFormat(ReplaceZ(s))
    IN  IF p.ok THEN [aware |-> p.aware, t |-> p.t] ELSE UtcNow(t)

\* the instant dt.astimezone(...) denotes: a naive datetime is taken to be
\* in the machine's local zone
Astimezone(dt, sys) == IF dt.aware THEN dt.t ELSE dt.t - sys

\* dt.astimezone(ZoneInfo(tz_name)).date(); astimezone does not raise for
\* the instants of the model, so `except Exception: local_dt = dt` is not taken
LocalDate(dt, sys) == (Astimezone(dt, sys) + TzOffset) \div DayLen

----------------------------------------------------------------------------
(* Exceptions *)

Exceptions == {"ConnectionError", "KeyError", "AttributeError", "ValueError",
               "TypeError", "NameError"}

\* a faulty handler: only request errors are caught
CatchesRequestErrors(e) == e = "ConnectionError"

\* `except Exception`
CatchesException(e) == e \in Exceptions

\* `except ValueError`
CatchesValueError(e) == e = "ValueError"

----------------------------------------------------------------------------
(* Raw records and upstream responses *)

Min(a, b) == IF a <= b THEN a ELSE b

\* text lengths and timestamp forms the upstream may serve
TextLens == {0, TitleMax, TitleMax + 1, SummaryMax + 1}
WireForms == {"offset", "Z", "naive", "garbage", "absent"}

MkWire(len, form, t) ==
    [len |-> len, form |-> form, t |-> IF form \in {"garbage", "absent"} THEN 0 ELSE t]

\* the record shapes tried by the direct adapter calls: every text length
\* with a well-formed timestamp, every timestamp form with a short text
FetchWires ==
    {MkWire(l, "offset", Midnight) : l \in TextLens}
        \cup {MkWire(TitleMax, f, Midnight) : f \in WireForms}

\* the record shapes main() meets
MainWires == {MkWire(TitleMax, f, Midnight) : f \in WireForms \ {"Z"}}

\* An upstream response.  status: "ok", "status" (a non-200 status code),
\* "error" (the request raises), "nonjson" (a 200 whose body is no JSON).
\* n: the records it holds.  bad: 0, or the position of the first record
\* whose shape is unexpected (touching it raises).
Responses(statuses) ==
    {r \in [status : {"ok"}, n : 0..MaxRaw, bad : 0..MaxRaw] : r.bad <= r.n}
        \cup {[status |-> s, n |-> 0, bad |-> 0] : s \in statuses \ {"ok"}}

\* records of a loop over m records handled before it ends or raises
Handled(m, bad) == IF bad # 0 /\ bad <= m THEN bad - 1 ELSE m

\* whether a loop over m records touches the bad one
Hits(m, bad) == bad # 0 /\ bad <= m

\* `upstream_value or datetime.utcnow()...isoformat()`
PublishedOrNow(w, t) ==
    IF w.form = "absent" THEN IsoFormat(UtcNow(t)) ELSE [form |-> w.form, t |-> w.t]

\* the outcome of a try body: the items appended before it ended, and the
\* exception it ended with ("none": it ran to its end or hit `continue`)
Outcome(items, raised, failed, usable) ==
    [items |-> items, raised |-> raised, failed |-> failed, usable |-> usable]

\* try: body  except Exception: print(...)
TryExcept(body) ==
    [body EXCEPT !.raised = IF CatchesException(@) THEN "none" ELSE @,
                 !.failed = body.failed \/ body.raised # "none"]

----------------------------------------------------------------------------
(* fetch_twitter_posts *)

TwitterItem(username, k, w, t) ==
    [platform |-> "twitter", source |-> username,
     title |-> IF w.len > TitleMax THEN TitleMax ELSE w.len,
     url |-> <<"status", k>>, summary |-> w.len,
     published |-> PublishedOrNow(w, t)]

LookupOutcomes == {"ok", "status", "error", "nodata"}

\* the try body of one username: lookup is what the user lookup did,
\* resp the tweets response
TwitterBody(username, lookup, resp, w, t) ==
    CASE lookup = "error" -> Outcome(<<>>, "ConnectionError", TRUE, 0)
      [] lookup = "status" -> Outcome(<<>>, "none", TRUE, 0)
      [] lookup = "nodata" -> Outcome(<<>>, "KeyError", TRUE, 0)
      [] resp.status = "error" -> Outcome(<<>>, "ConnectionError", TRUE, 0)
      [] resp.status = "status" -> Outcome(<<>>, "none", TRUE, 0)
      [] OTHER ->
            Outcome([k \in 1..Handled(resp.n, resp.bad) |-> TwitterItem(username, k, w, t)],
                    IF Hits(resp.n, resp.bad) THEN "AttributeError" ELSE "none",
                    Hits(resp.n, resp.bad), resp.n)

----------------------------------------------------------------------------
(* fetch_reddit_posts *)

RedditItem(name, k, w) ==
    [platform |-> "reddit", source |-> <<"r">> \o name,
     title |-> w.len, url |-> <<"submission", k>>,
     summary |-> Min(w.len, SummaryMax),
     published |-> IsoFormat([aware |-> TRUE, t |-> w.t])]

\* the try body of one subreddit; subreddit.new(limit=max_items) yields at
\* most max_items submissions
RedditBody(name, resp, cap, w) ==
    IF resp.status = "error" THEN Outcome(<<>>, "ConnectionError", TRUE, 0)
    ELSE LET m == Min(resp.n, cap)
         IN  Outcome([k \in 1..Handled(m, resp.bad) |-> RedditItem(name, k, w)],
                     IF Hits(m, resp.bad) THEN "AttributeError" ELSE "none",
                     Hits(m, resp.bad), m)

----------------------------------------------------------------------------
(* fetch_rss_feeds *)

\* published_parsed is a UTC struct_time: absent, or unusable (the inner
\* try falls back to the clock), or a time
RssItem(name, k, w, t) ==
    [platform |-> "rss", source |-> name,
     title |-> w.len, url |-> <<"entry", k>>, summary |-> w.len,
     published |-> IF w.form \in {"absent", "garbage"}
                   THEN IsoFormat(UtcNow(t))
                   ELSE IsoFormat([aware |-> TRUE, t |-> w.t])]

\* the try body of one feed: entries = parsed.entries[:max_items]
RssBody(name, resp, cap, w, t) ==
    IF resp.status = "error" THEN Outcome(<<>>, "ConnectionError", TRUE, 0)
    ELSE LET m == Min(resp.n, cap)
         IN  Outcome([k \in 1..Handled(m, resp.bad) |-> RssItem(name, k, w, t)],
                     IF Hits(m, resp.bad) THEN "AttributeError" ELSE "none",
                     Hits(m, resp.bad), m)

----------------------------------------------------------------------------
(* fetch_github_updates *)

CommitItem(repo, k, w, t) ==
    [platform |-> "github", source |-> repo,
     title |-> w.len, url |-> <<"commit", k>>, summary |-> w.len,
     published |-> PublishedOrNow(w, t)]

ReleaseItem(repo, k, w, t) ==
    [platform |-> "github", source |-> repo,
     title |-> w.len, url |-> <<"release", k>>,
     summary |-> Min(w.len, SummaryMax),
     published |-> PublishedOrNow(w, t)]

\* the records of a loop that are appended: one with an empty message
\* (an empty name) is skipped by `continue`
Kept(m, w) == IF w.len = 0 THEN 0 ELSE m

\* the try body of the commits of one repo; the response is not sliced
CommitsBody(repo, resp, w, t) ==
    CASE resp.status = "error" -> Outcome(<<>>, "ConnectionError", TRUE, 0)
      [] resp.status \in {"status", "nonjson"} -> Outcome(<<>>, "none", TRUE, 0)
      [] OTHER ->
            Outcome([k \in 1..Kept(Handled(resp.n, resp.bad), w) |-> CommitItem(repo, k, w, t)],
                    IF Hits(resp.n, resp.bad) THEN "AttributeError" ELSE "none",
                    Hits(resp.n, resp.bad), Kept(resp.n, w))

\* the try body of the releases of one repo: releases_json[:max_items]
ReleasesBody(repo, resp, cap, w, t) ==
    CASE resp.status = "error" -> Outcome(<<>>, "ConnectionError", TRUE, 0)
      [] resp.status \in {"status", "nonjson"} -> Outcome(<<>>, "none", TRUE, 0)
      [] OTHER ->
            LET m == Min(resp.n, cap)
            IN  Outcome([k \in 1..Kept(Handled(m, resp.bad), w) |-> ReleaseItem(repo, k, w, t)],
                        IF Hits(m, resp.bad) THEN "AttributeError" ELSE "none",
                        Hits(m, resp.bad), Kept(m, w))

\* owner, repo = repo_full.split("/")
SplitRaises(repo) == IF Len(repo) = 2 THEN "none" ELSE "ValueError"

\* one iteration of the loop over repos
GithubIteration(repo, cresp, rresp, cap, w, t) ==
    IF SplitRaises(repo) # "none"
    THEN Outcome(<<>>,
                 IF CatchesValueError(SplitRaises(repo)) THEN "none" ELSE SplitRaises(repo),
                 TRUE, 0)
    ELSE LET c == TryExcept(CommitsBody(repo, cresp, w, t))
             r == TryExcept(ReleasesBody(repo, rresp, cap, w, t))
         IN  IF c.raised # "none" THEN c
             ELSE Outcome(c.items \o r.items, r.raised, c.failed \/ r.failed,
                          c.usable + r.usable)

----------------------------------------------------------------------------
(* filter_today *)

\* The clock reading at which item i of a filter_today call is handled: the
\* call read the clock at t0 to compute `today`, and the clock advanced by d
\* hours after item k was handled.
ReadAt(t0, k, d, i) == IF i > k THEN t0 + d ELSE t0

\* a faulty SameDate: the item's date is taken in UTC
SameUtcDate(dt, today, sys) == Astimezone(dt, sys) \div DayLen = today

\* local_dt.date() == today
SameDate(dt, today, sys) == LocalDate(dt, sys) = today

\* the body of the loop for one item, handled at clock reading t
Retained(item, today, t, sys) == SameDate(ParseOrNow(item.published, t), today, sys)

RECURSIVE FilterLoop(_, _, _, _, _, _, _)
FilterLoop(items, i, today, t0, k, d, sys) ==
    IF i > Len(items) THEN <<>>
    ELSE (IF Retained(items[i], today, ReadAt(t0, k, d, i), sys)
          THEN <<items[i]>> ELSE <<>>)
             \o FilterLoop(items, i + 1, today, t0, k, d, sys)

FilterToday(items, t0, k, d, sys) == FilterLoop(items, 1, Today(t0), t0, k, d, sys)

----------------------------------------------------------------------------
(* the sort step of main() *)

\* _parse_date(x.get("published", "")) at clock reading t
SortKey(item, t) == ParseOrNow(item.published, t)

\* Comparing an offset-naive with an offset-aware datetime raises TypeError;
\* a sort that ends has compared the keys along a connected graph, so it
\* raises exactly when the keys are of both kinds.
SortRaises(items, t) ==
    IF \E i, j \in 1..Len(items) : SortKey(items[i], t).aware # SortKey(items[j], t).aware
    THEN "TypeError" ELSE "none"

\* x goes behind every element whose key is not smaller (the sort is stable)
RECURSIVE InsertDesc(_, _, _)
InsertDesc(sorted, x, t) ==
    IF sorted = <<>> THEN <<x>>
    ELSE IF SortKey(Head(sorted), t).t >= SortKey(x, t).t
         THEN <<Head(sorted)>> \o InsertDesc(Tail(sorted), x, t)
         ELSE <<x>> \o sorted

\* results.sort(key=..., reverse=True) of the first n items
RECURSIVE SortDesc(_, _, _)
SortDesc(items, n, t) ==
    IF n = 0 THEN <<>> ELSE InsertDesc(SortDesc(items, n - 1, t), items[n], t)

----------------------------------------------------------------------------
(* save_results *)

\* A str is the sequence of its path segments; None and "" are the two
\* falsy values.
NoneVal == <<"<None>">>
EmptyStr == <<"">>
Truthy(x) == x \notin {NoneVal, EmptyStr}

\* the names bound in storage.py's module namespace: the file imports nothing
StorageGlobals == {"save_results"}

\* evaluating a global name of storage.py
Lookup(name) == IF name \in StorageGlobals THEN "none" ELSE "NameError"

Formats == {"json", "JSON", "csv", "Csv", "xml", ""}

\* output_format.lower()
Lower(fmt) ==
    CASE fmt = "JSON" -> "json"
      [] fmt = "Csv" -> "csv"
      [] OTHER -> fmt

\* a faulty guard: it tests json_path
UsesJsonPath(c) == Truthy(c.json_path)

\* `if output_dir:`
UsesOutputDir(c) == Truthy(c.output_dir)

\* lines 16-25: the paths after the output_dir block, or the error it raises
DirBlock(c) ==
    IF ~UsesOutputDir(c)
    THEN [raised |-> "none", json_path |-> c.json_path, csv_path |-> c.csv_path]
    ELSE IF Lookup("Path") # "none"
    THEN [raised |-> Lookup("Path"), json_path |-> c.json_path, csv_path |-> c.csv_path]
    ELSE CASE Lower(c.output_format) = "json" ->
                [raised |-> "none", json_path |-> c.output_dir \o <<"latest.json">>,
                 csv_path |-> c.csv_path]
           [] Lower(c.output_format) = "csv" ->
                [raised |-> "none", json_path |-> c.json_path,
                 csv_path |-> c.output_dir \o <<"latest.csv">>]
           [] OTHER ->
                [raised |-> "ValueError", json_path |-> c.json_path,
                 csv_path |-> c.csv_path]

\* lines 28-32: open(path, "w") creates the file before json.dump runs
JsonBlock(p) ==
    IF ~Truthy(p.json_path) THEN [raised |-> "none", files |-> {}]
    ELSE IF Lookup("Path") # "none" THEN [raised |-> Lookup("Path"), files |-> {}]
    ELSE IF Lookup("json") # "none"
    THEN [raised |-> Lookup("json"), files |-> {[path |-> p.json_path, content |-> "empty"]}]
    ELSE [raised |-> "none", files |-> {[path |-> p.json_path, content |-> "json"]}]

\* lines 35-39
CsvBlock(p) ==
    IF ~Truthy(p.csv_path) THEN [raised |-> "none", files |-> {}]
    ELSE IF Lookup("pd") # "none" THEN [raised |-> Lookup("pd"), files |-> {}]
    ELSE IF Lookup("Path") # "none" THEN [raised |-> Lookup("Path"), files |-> {}]
    ELSE [raised |-> "none", files |-> {[path |-> p.csv_path, content |-> "csv"]}]

\* save_results(results, json_path, csv_path, output_dir, output_format):
\* the exception it ends with and the files it wrote
SaveResults(c) ==
    LET d == DirBlock(c)
        j == JsonBlock(d)
        v == CsvBlock(d)
    IN  IF d.raised # "none" THEN [raised |-> d.raised, files |-> {}]
        ELSE IF j.raised # "none" THEN j
        ELSE [raised |-> v.raised, files |-> j.files \cup v.files]

\* main(): save_results(results, output_dir="data", output_format="json")
MainCall ==
    [json_path |-> NoneVal, csv_path |-> NoneVal, output_dir |-> <<"data">>,
     output_format |-> "json"]

\* the calls tried directly
SaveCalls ==
    [json_path : {NoneVal, <<"out.json">>}, csv_path : {NoneVal, <<"out.csv">>},
     output_dir : {NoneVal, EmptyStr, <<"data">>}, output_format : Formats]

----------------------------------------------------------------------------
(* The adapters' loops, one action per identifier *)

\* twitter and reddit return early without credentials; praw.Reddit(...) may
\* also raise ("rejected"); the GitHub token is optional
CredsOf(a) ==
    CASE a = "twitter" -> {"present", "absent"}
      [] a = "reddit" -> {"present", "absent", "rejected"}
      [] a = "rss" -> {"present"}
      [] a = "github" -> {"present", "absent"}

\* `if not bearer_token: return results` and its like in fetch_reddit_posts
ShortCircuits == pc \in {"twitter", "reddit"} /\ cred # "present"

Looping(a) == pc = a /\ ~ShortCircuits /\ idx <= Len(idents)

\* the effect of one iteration whose outcome is r
Iterate(r) ==
    /\ acc' = acc \o r.items
    /\ served' = Append(served, [failed |-> r.failed, usable |-> r.usable])
    /\ IF r.raised = "none"
       THEN idx' = idx + 1 /\ pc' = pc /\ exc' = exc
       ELSE idx' = idx /\ pc' = "crashed" /\ exc' = r.raised
    /\ UNCHANGED <<entry, idents, max_items, cred, wire, results, now, sysOff, hist, call, files>>

TwitterUser ==
    /\ Looping("twitter")
    /\ \E lookup \in LookupOutcomes, resp \in Responses({"ok", "status", "error"}) :
          Iterate(TryExcept(TwitterBody(idents[idx], lookup, resp, wire, now)))

RedditSubreddit ==
    /\ Looping("reddit")
    /\ \E resp \in Responses({"ok", "error"}) :
          Iterate(TryExcept(RedditBody(idents[idx], resp, max_items, wire)))

RssFeed ==
    /\ Looping("rss")
    /\ \E resp \in Responses({"ok", "error"}) :
          Iterate(TryExcept(RssBody(idents[idx], resp, max_items, wire, now)))

GithubRepo ==
    /\ Looping("github")
    /\ \E cresp \in Responses({"ok", "status", "error", "nonjson"}),
          rresp \in Responses({"ok", "status", "error", "nonjson"}) :
          Iterate(GithubIteration(idents[idx], cresp, rresp, max_items, wire, now))

\* `return results` of an adapter
Returns == pc \in Adapters /\ (ShortCircuits \/ idx > Len(idents))

----------------------------------------------------------------------------
(* A direct call of one adapter *)

Idle == /\ hist = <<>>
        /\ call = MainCall
        /\ files = {}
        /\ exc = "none"

InitFetch ==
    /\ entry \in Adapters
    /\ pc = entry
    /\ idents = CallIdents(pc)
    /\ max_items \in 0..MaxCap
    /\ cred \in CredsOf(pc)
    /\ wire \in FetchWires
    /\ idx = 1
    /\ acc = <<>>
    /\ served = <<>>
    /\ results = <<>>
    /\ now = Midnight
    /\ sysOff = 0
    /\ Idle

FetchReturn ==
    /\ Returns
    /\ pc' = "returned"
    /\ results' = acc
    /\ UNCHANGED <<entry, idents, max_items, cred, wire, idx, acc, served, now, sysOff,
                   exc, hist, call, files>>

NextFetch == TwitterUser \/ RedditSubreddit \/ RssFeed \/ GithubRepo \/ FetchReturn

SpecFetch == InitFetch /\ [][NextFetch]_vars

----------------------------------------------------------------------------
(* A direct call of filter_today, and a second call on its result *)

FilterPublished ==
    {[form |-> "offset", t |-> t] : t \in Instants}
        \cup {[form |-> "Z", t |-> t] : t \in {Midnight - 1, Midnight}}
        \cup {[form |-> "naive", t |-> t] : t \in {Midnight - 1, Midnight + 1}}
        \cup {[form |-> "garbage", t |-> 0], [form |-> "empty", t |-> 0]}

MkItem(i, p) ==
    [platform |-> "rss", source |-> <<"feed">>, title |-> 1, url |-> <<"item", i>>,
     summary |-> 1, published |-> p]

ItemLists ==
    UNION {{[i \in 1..n |-> MkItem(i, f[i])] : f \in [1..n -> FilterPublished]} :
             n \in 0..MaxList}

\* the clock advances of one filter_today call: by d hours after item k (with
\* d = 0 the place does not matter)
Advances(n) == {a \in [k : 0..n, d : 0..MaxAdvance] : a.d = 0 => a.k = 0}

\* one call of filter_today on `results`: the clock advances by d after item k
Filter(k, d) ==
    /\ results' = FilterToday(results, now, k, d, sysOff)
    /\ now' = now + d
    /\ hist' = Append(hist, [input |-> results, t0 |-> now, k |-> k, d |-> d,
                             output |-> FilterToday(results, now, k, d, sysOff)])

NoAdapter ==
    /\ idents = <<>>
    /\ max_items = 0
    /\ cred = "present"
    /\ wire = MkWire(0, "absent", 0)
    /\ idx = 1
    /\ acc = <<>>
    /\ served = <<>>

InitFilter ==
    /\ entry = "filter_today"
    /\ pc = "filter_call"
    /\ results \in ItemLists
    /\ now \in StartTimes
    /\ sysOff \in SysOffsets
    /\ NoAdapter
    /\ Idle

FilterCall ==
    /\ pc = "filter_call"
    /\ \E a \in Advances(Len(results)) : Filter(a.k, a.d)
    /\ pc' = "filter_again"
    /\ UNCHANGED <<entry, idents, max_items, cred, wire, idx, acc, served, sysOff, exc, call, files>>

FilterAgain ==
    /\ pc = "filter_again"
    /\ \E a \in Advances(Len(results)) : Filter(a.k, a.d)
    /\ pc' = "returned"
    /\ UNCHANGED <<entry, idents, max_items, cred, wire, idx, acc, served, sysOff, exc, call, files>>

NextFilter == FilterCall \/ FilterAgain

SpecFilter == InitFilter /\ [][NextFilter]_vars

----------------------------------------------------------------------------
(* A direct call of save_results *)

InitSave ==
    /\ entry = "save_results"
    /\ pc = "save_call"
    /\ call \in SaveCalls
    /\ results \in {<<>>, <<MkItem(1, [form |-> "offset", t |-> Midnight])>>}
    /\ now \in StartTimes
    /\ sysOff = 0
    /\ NoAdapter
    /\ hist = <<>>
    /\ files = {}
    /\ exc = "none"

SaveCall ==
    /\ pc = "save_call"
    /\ pc' = IF SaveResults(call).raised = "none" THEN "returned" ELSE "crashed"
    /\ exc' = SaveResults(call).raised
    /\ files' = files \cup SaveResults(call).files
    /\ UNCHANGED <<entry, idents, max_items, cred, wire, idx, acc, served, results, now,
                   sysOff, hist, call>>

NextSave == SaveCall

SpecSave == InitSave /\ [][NextSave]_vars

----------------------------------------------------------------------------
(* main() *)

Config(a) ==
    CASE a = "twitter" -> TWITTER_USERNAMES
      [] a = "reddit" -> SUBREDDITS
      [] a = "rss" -> RSS_FEEDS
      [] a = "github" -> GITHUB_REPOS

NextStage(a) ==
    CASE a = "twitter" -> "reddit"
      [] a = "reddit" -> "rss"
      [] a = "rss" -> "github"
      [] a = "github" -> "filter"

Init ==
    /\ entry = "main"
    /\ pc = "twitter"
    /\ idents = Config("twitter")
    /\ max_items = MAX_ITEMS_PER_SOURCE
    /\ cred \in CredsOf("twitter")
    /\ wire \in MainWires
    /\ idx = 1
    /\ acc = <<>>
    /\ served = <<>>
    /\ results = <<>>
    /\ now \in StartTimes
    /\ sysOff \in SysOffsets
    /\ Idle

\* results.extend(fetch_...(...)), and the call of the next adapter
MainExtend ==
    /\ Returns
    /\ results' = results \o acc
    /\ pc' = NextStage(pc)
    /\ acc' = <<>>
    /\ served' = <<>>
    /\ idx' = 1
    /\ IF NextStage(pc) \in Adapters
       THEN /\ idents' = Config(NextStage(pc))
            /\ cred' \in CredsOf(NextStage(pc))
            /\ wire' \in MainWires
       ELSE /\ idents' = <<>>
            /\ cred' = "present"
            /\ wire' = MkWire(0, "absent", 0)
    /\ UNCHANGED <<entry, max_items, now, sysOff, exc, hist, call, files>>

\* results = filter_today(results, tz_name="Asia/Jerusalem")
MainFilter ==
    /\ pc = "filter"
    /\ \E a \in Advances(Len(results)) : Filter(a.k, a.d)
    /\ pc' = "sort"
    /\ UNCHANGED <<entry, idents, max_items, cred, wire, idx, acc, served, sysOff, exc, call, files>>

\* results.sort(key=lambda x: _parse_date(x.get("published", "")), reverse=True)
MainSort ==
    /\ pc = "sort"
    /\ IF SortRaises(results, now) = "none"
       THEN /\ results' = SortDesc(results, Len(results), now)
            /\ pc' = "save"
            /\ exc' = exc
       ELSE /\ results' = results
            /\ pc' = "crashed"
            /\ exc' = SortRaises(results, now)
    /\ UNCHANGED <<entry, idents, max_items, cred, wire, idx, acc, served, now, sysOff,
                   hist, call, files>>

\* save_results(results, output_dir="data", output_format="json"); what
\* follows it (generate_html, the two prints) starts at pc = "html", which
\* no run reaches: Path is not bound in storage.py
MainSave ==
    /\ pc = "save"
    /\ pc' = IF SaveResults(call).raised = "none" THEN "html" ELSE "crashed"
    /\ exc' = SaveResults(call).raised
    /\ files' = files \cup SaveResults(call).files
    /\ UNCHANGED <<entry, idents, max_items, cred, wire, idx, acc, served, results, now,
                   sysOff, hist, call>>

Next ==
    \/ TwitterUser
    \/ RedditSubreddit
    \/ RssFeed
    \/ GithubRepo
    \/ MainExtend
    \/ MainFilter
    \/ MainSort
    \/ MainSave

Spec == Init /\ [][Next]_vars

----------------------------------------------------------------------------
(* Vocabulary of the properties *)

Range(q) == {q[i] : i \in DOMAIN q}

\* the `source` the items of identifier id of adapter a are to carry
Label(a, id) == IF a = "reddit" THEN <<"r">> \o id ELSE id

\* the number of items of q whose source is src
Count(q, src) == Cardinality({i \in DOMAIN q : q[i].source = src})

\* the adapter returned early for want of credentials
ShortCircuited == entry \in {"twitter", "reddit"} /\ cred # "present"

\* a `published` string that denotes an instant: it carries an offset or a Z
HasOffset(p) == p.form \in {"offset", "Z"}

\* a `published` string that cannot be parsed
Unparsable(p) == p.form \in {"garbage", "empty"}

\* the calendar date of instant t in the target zone
DateInZone(t) == (t + TzOffset) \div DayLen

\* an output_format that is neither 'json' nor 'csv', compared case-insensitively
Unrecognized(fmt) == fmt \notin {"json", "JSON", "csv", "Csv"}

\* q keeps the order of r and holds no item r does not hold
InOrderOf(q, r) == q = SelectSeq(r, LAMBDA it : it \in Range(q))

----------------------------------------------------------------------------
(* The properties *)

\* C1: fault isolation in every adapter.  No exception escapes the fetch
\* call; every identifier that did not fail has all its items in the
\* collection, whatever happened to the identifiers before it; and unless the
\* adapter returned early for want of credentials, every identifier of the
\* list has been processed when it returns.
C1_FaultIsolation ==
    /\ exc = "none"
    /\ pc # "crashed"
    /\ \A i \in 1..Len(served) :
          ~served[i].failed => Count(acc, Label(entry, idents[i])) = served[i].usable
    /\ pc = "returned" =>
          /\ results = acc
          /\ ~ShortCircuited => Len(served) = Len(idents)

\* C1's case: the call returned, an identifier failed, and a later one
\* delivered its items
C1_Witness ==
    /\ pc = "returned"
    /\ \E i, j \in 1..Len(served) :
          /\ i < j
          /\ served[i].failed
          /\ ~served[j].failed
          /\ served[j].usable > 0
          /\ Count(results, Label(entry, idents[j])) = served[j].usable

\* C2: an identifier whose processing failed contributes no item to the
\* adapter's collection.
C2_FailedContributesNothing ==
    \A i \in 1..Len(served) :
        served[i].failed => Count(acc, Label(entry, idents[i])) = 0

\* C3: no exception propagates out of main(): the run gets past the
\* adapters, the filter, the sort and the JSON write.
C3_RunCompletes == entry = "main" => (exc = "none" /\ pc # "crashed")

\* C4, as claimed: every save_results call with an unrecognized
\* output_format raises, whichever paths are passed.
C4_UnrecognizedAlwaysRaises ==
    (pc # "save_call" /\ Unrecognized(call.output_format)) => exc # "none"

\* C4, amended: every save_results call with a non-empty output_dir and an
\* unrecognized output_format raises and writes no file.
C4_UnrecognizedRaisesWithOutputDir ==
    (pc # "save_call" /\ Truthy(call.output_dir) /\ Unrecognized(call.output_format))
        => (exc # "none" /\ pc = "crashed" /\ files = {})

\* C4's case: a call with output_dir and an unrecognized format has ended
C4_Witness ==
    /\ entry = "save_results"
    /\ pc = "crashed"
    /\ call.output_dir = <<"data">>
    /\ call.output_format = "xml"

\* C5: every item an adapter collected carries a `published` string with an
\* explicit offset.
C5_PublishedHasOffset ==
    \A i \in 1..Len(acc) : HasOffset(acc[i].published)

\* C6: in every filter_today call, the result keeps the input's order and
\* adds nothing; an item whose `published` denotes an instant is in the
\* result exactly when that instant falls, in the target zone, on the date
\* the call's clock reading falls on; and a second call on the result, with
\* the clock standing still, returns it unchanged.
C6_FilterExact ==
    /\ \A c \in Range(hist) :
          /\ InOrderOf(c.output, c.input)
          /\ \A i \in 1..Len(c.input) :
                HasOffset(c.input[i].published) =>
                   (c.input[i] \in Range(c.output)
                       <=> DateInZone(c.input[i].published.t) = DateInZone(c.t0))
    /\ (Len(hist) = 2 /\ hist[1].d = 0 /\ hist[2].d = 0) =>
          (hist[2].input = hist[1].output /\ hist[2].output = hist[1].output)

\* C6's case: a call dropped one item with an offset and kept another, and
\* the second call ran at the same instant
C6_Witness ==
    /\ Len(hist) = 2
    /\ hist[1].d = 0
    /\ hist[2].d = 0
    /\ \E i, j \in 1..Len(hist[1].input) :
          /\ HasOffset(hist[1].input[i].published)
          /\ HasOffset(hist[1].input[j].published)
          /\ hist[1].input[i] \in Range(hist[2].output)
          /\ hist[1].input[j] \notin Range(hist[1].output)

\* C7, as claimed: an item whose `published` cannot be parsed is in the
\* result of every filter_today call, however the clock advances.
C7_UnparsableAlwaysPasses ==
    \A c \in Range(hist) : \A i \in 1..Len(c.input) :
        Unparsable(c.input[i].published) => c.input[i] \in Range(c.output)

\* C7, amended: an item whose `published` cannot be parsed is in the result
\* exactly when the clock reading substituted for it falls, in the target
\* zone, on the date `today` was computed from.
C7_UnparsablePassesOnSameDate ==
    \A c \in Range(hist) : \A i \in 1..Len(c.input) :
        Unparsable(c.input[i].published) =>
            (c.input[i] \in Range(c.output)
                <=> DateInZone(ReadAt(c.t0, c.k, c.d, i)) = DateInZone(c.t0))

\* C7's case: the clock advanced before an unparsable item was handled, and
\* the item passed
C7_Witness ==
    \E c \in Range(hist) : \E i \in 1..Len(c.input) :
        /\ Unparsable(c.input[i].published)
        /\ c.d > 0
        /\ i > c.k
        /\ c.input[i] \in Range(c.output)

\* C8: the sort step of main() raises nothing, and leaves a permutation of
\* its input whose instants do not increase.
C8_SortNeverCrashes ==
    /\ exc # "TypeError"
    /\ (entry = "main" /\ pc = "save") =>
          /\ Len(results) = Len(hist[1].output)
          /\ Range(results) = Range(hist[1].output)
          /\ \A i \in 1..(Len(results) - 1) :
                Astimezone(SortKey(results[i], now), sysOff)
                    >= Astimezone(SortKey(results[i + 1], now), sysOff)

\* C9: the collection holds at most max_items items of any one identifier.
C9_PerIdentifierCap ==
    \A i \in 1..Len(idents) : Count(acc, Label(entry, idents[i])) <= max_items

\* C10: a tweet's title is the first 100 characters of its text (the whole
\* text when it is no longer), and the summary of a reddit or github item
\* has at most 200 characters.
C10_TruncationBounds ==
    \A i \in 1..Len(acc) :
        /\ acc[i].platform = "twitter" =>
              (acc[i].title <= TitleMax /\ acc[i].title = Min(acc[i].summary, TitleMax))
        /\ acc[i].platform \in {"reddit", "github"} => acc[i].summary <= SummaryMax

====
